---------------------------- MODULE Spec2Model ----------------------------
(***************************************************************************)
(* Model of bot.py: the daily weather notifier.                            *)
(*                                                                         *)
(*   - fetch_weather / build_message: the forecast filter and the message  *)
(*     renderer, as operators over the JSON the weather API answers;       *)
(*   - main: the scheduling loop (compute target, sleep, build, send).     *)
(*                                                                         *)
(* Time is counted in whole seconds since 2024-01-01T00:00:00 UTC.  An     *)
(* aware datetime is a record [date, secs, off]: the wall-clock day        *)
(* number, the wall-clock second of that day and the UTC offset in hours.  *)
(* Strings the code slices (timestamps, dates) are sequences of one        *)
(* character strings.  Numbers of the API are counted in tenths, so that   *)
(* round() has something to round.                                         *)
(***************************************************************************)
EXTENDS Integers, Sequences, FiniteSets, TLC

VARIABLES
    clock,          \* the wall clock: seconds since the epoch, UTC
    pc,             \* where main (or a direct call of build_message) stands
    api,            \* what the weather API answers for each location now
    now_ph,         \* main: now_ph, line 93
    target_ph,      \* main: target_ph, lines 96-102
    delay_seconds,  \* main: delay_seconds, line 107
    now,            \* build_message: now, line 32
    today_str,      \* build_message: today_str, line 33
    will_rain,      \* build_message: will_rain
    location_data,  \* build_message: location_data
    message,        \* the message build_message returned (main: message)
    fetched,        \* observation: the responses fetched in this cycle
    log,            \* observation: the last iteration that printed a failed send
    attempts,       \* observation: every delivery attempt so far
    iter,           \* observation: the number of the loop iteration
    builds          \* observation: build_message calls in this iteration

vars == <<clock, pc, api, now_ph, target_ph, delay_seconds, now, today_str,
          will_rain, location_data, message, fetched, log, attempts, iter,
          builds>>

---------------------------------------------------------------------------
(* Bounds of the model *)

\* the last local day an iteration of main's loop starts on
MaxDays == 2
\* the longest a blocking step (a clock read, a fetch, a send, the tail of a
\* sleep) can take beyond its nominal time, in seconds
MaxLatency == 1
\* the most hourly entries the API returns to one call of build_message
MaxEntries == 2
\* the local day (a day number) main is started on and build_message is
\* called on
FirstDay == 1

---------------------------------------------------------------------------
(* Program constants *)

\* PH_TZ = pytz.timezone("Asia/Manila"): UTC+8, no daylight saving
PH_TZ == 8
\* datetime(now_ph.year, now_ph.month, now_ph.day, 6, 0, 0)
TargetHour == 6
\* if 8 <= hour <= 20
FirstHour == 8
LastHour == 20
\* if rains[i] >= 30
RainThreshold == 30
\* await asyncio.sleep(10)
RetryDelay == 10

UTC == 0
SecondsPerHour == 60 * 60
SecondsPerDay == 24 * SecondsPerHour

---------------------------------------------------------------------------
(* Characters, digits and the strings the code formats and slices *)

DigitChars == <<"0", "1", "2", "3", "4", "5", "6", "7", "8", "9">>

Digit(k) == DigitChars[k + 1]

DigitValue(c) == (CHOOSE k \in 1..10 : DigitChars[k] = c) - 1

IsDigit(c) == \E k \in 1..10 : DigitChars[k] = c

\* %m, %d, %H, %M: two digits, zero padded
TwoDigits(n) == <<Digit(n \div 10), Digit(n % 10)>>

RECURSIVE NatToChars(_)
\* str(n) for n >= 0
NatToChars(n) ==
    IF n < 10 THEN <<Digit(n)>>
    ELSE NatToChars(n \div 10) \o <<Digit(n % 10)>>

\* str(n) of an int
IntToChars(n) == IF n < 0 THEN <<"-">> \o NatToChars(-n) ELSE NatToChars(n)

RECURSIVE ParseNat(_, _)
ParseNat(cs, acc) ==
    IF cs = <<>> THEN acc
    ELSE ParseNat(Tail(cs), acc * 10 + DigitValue(Head(cs)))

\* int(s) raises ValueError unless s is a non-empty run of digits
IntRaises(cs) == cs = <<>> \/ \E k \in 1..Len(cs) : ~IsDigit(cs[k])

\* int(s)
ParseInt(cs) == ParseNat(cs, 0)

\* s[a:b], Python's half-open slice with 0 <= a <= b
Slice(s, a, b) ==
    LET hi == IF b < Len(s) THEN b ELSE Len(s)
    IN IF a >= hi THEN <<>> ELSE SubSeq(s, a + 1, hi)

\* s.startswith(p)
StartsWith(s, p) == Len(p) <= Len(s) /\ SubSeq(s, 1, Len(p)) = p

---------------------------------------------------------------------------
(* datetime: aware datetimes, the calendar of January 2024 *)

\* the instant of an aware datetime, in seconds since the epoch
Instant(dt) == dt.date * SecondsPerDay + dt.secs - dt.off * SecondsPerHour

\* the aware datetime of instant t in the zone of offset off
AtZone(t, off) ==
    LET local == t + off * SecondsPerHour
    IN [date |-> local \div SecondsPerDay,
        secs |-> local % SecondsPerDay,
        off  |-> off]

\* datetime.now(tz)
DatetimeNow(t, tz) == AtZone(t, tz)

\* datetime(y, m, d, 6, 0, 0): naive, the date given by its day number
NaiveAt(date, hour) == [date |-> date, secs |-> hour * SecondsPerHour]

\* PH_TZ.localize(naive)
Localize(naive, tz) == [date |-> naive.date, secs |-> naive.secs, off |-> tz]

\* dt + timedelta(days=n): wall-clock arithmetic, the offset kept
PlusDays(dt, n) == [dt EXCEPT !.date = @ + n]

\* dt.astimezone(tz)
AsTimezone(dt, tz) == AtZone(Instant(dt), tz)

\* (a - b).total_seconds() of two aware datetimes
TotalSeconds(a, b) == Instant(a) - Instant(b)

\* a >= b of two aware datetimes
DtGe(a, b) == Instant(a) >= Instant(b)

\* day number 0 is Monday 2024-01-01; the model stays within January 2024
DayOfMonth(date) == date + 1

WeekdayNames == <<"Monday", "Tuesday", "Wednesday", "Thursday", "Friday",
                  "Saturday", "Sunday">>

\* strftime("%Y-%m-%d")
StrfDate(dt) ==
    <<"2", "0", "2", "4", "-", "0", "1", "-">> \o TwoDigits(DayOfMonth(dt.date))

\* strftime("%A, %B %#d, %Y")
StrfLong(dt) ==
    <<WeekdayNames[(dt.date % 7) + 1], ", ", "January", " ">>
        \o NatToChars(DayOfMonth(dt.date)) \o <<", ", "2", "0", "2", "4">>

\* the API's timestamp "YYYY-MM-DDTHH:MM" of a local day and hour
Timestamp(date, hour) ==
    StrfDate([date |-> date]) \o <<"T">> \o TwoDigits(hour)
        \o <<":">> \o TwoDigits(0)

---------------------------------------------------------------------------
(* JSON values: dicts are functions on their keys, lists are sequences,    *)
(* null is None and a number x is <<10 * x>>                               *)

EmptyDict == [k \in {} |-> <<>>]

None == <<>>

Num(tenths) == <<tenths>>

IsNone(v) == v = None

\* d.get(k, default)
Get(d, k, default) == IF k \in DOMAIN d THEN d[k] ELSE default

\* round(x) of a number: to the nearest integer, a half to the even one
Round(v) ==
    LET q == v[1] \div 10
        r == v[1] % 10
    IN IF r < 5 THEN q
       ELSE IF r > 5 THEN q + 1
       ELSE IF q % 2 = 0 THEN q ELSE q + 1

---------------------------------------------------------------------------
(* Configuration *)

\* LOCATIONS, the coordinates being whatever the environment holds
LOCATIONS ==
    <<[name |-> "Work", lat |-> "WORK_LATITUDE", lon |-> "WORK_LONGITUDE"],
      [name |-> "Home", lat |-> "HOME_LATITUDE", lon |-> "HOME_LONGITUDE"]>>

Coordinates == {<<LOCATIONS[k].lat, LOCATIONS[k].lon>> : k \in 1..Len(LOCATIONS)}

RainEmoji == "sun behind rain cloud"
SunEmoji == "sun"

---------------------------------------------------------------------------
(* fetch_weather and build_message *)

\* fetch_weather(lat, lon): the answer of the API, [raises, json]; raises
\* stands for requests.get or r.json() raising
fetch_weather(lat, lon) == api[<<lat, lon>>]

\* InWindow with the last hour left out
InWindowHalfOpen(hour) == FirstHour <= hour /\ hour < LastHour

\* 8 <= hour <= 20
InWindow(hour) == FirstHour <= hour /\ hour <= LastHour

\* rains[i] >= 30 raises IndexError past the end of rains and TypeError on None
RainCheckRaises(rains, i) == i > Len(rains) \/ IsNone(rains[i])

\* RainCheck with > for >=
RainCheckAbove(rains, i) == rains[i][1] > RainThreshold * 10

\* rains[i] >= 30
RainCheck(rains, i) == rains[i][1] >= RainThreshold * 10

\* xs[i] if i < len(xs) else None, i counted from 1
ElementOrNone(xs, i) == IF i <= Len(xs) THEN xs[i] ELSE None

\* the body of "for i in range(len(times))", i counted from 1; acc holds
\* [raised, will_rain, times, temps, rains] (the filtered_ lists)
FilterStep(acc, i, times, temps, rains, today) ==
    IF acc.raised \/ ~StartsWith(times[i], today) THEN acc
    ELSE IF IntRaises(Slice(times[i], 11, 13)) THEN [acc EXCEPT !.raised = TRUE]
    ELSE IF ~InWindow(ParseInt(Slice(times[i], 11, 13))) THEN acc
    ELSE LET kept == [acc EXCEPT !.times = Append(@, times[i]),
                                 !.temps = Append(@, ElementOrNone(temps, i)),
                                 !.rains = Append(@, ElementOrNone(rains, i))]
         IN IF RainCheckRaises(rains, i) THEN [kept EXCEPT !.raised = TRUE]
            ELSE IF RainCheck(rains, i) THEN [kept EXCEPT !.will_rain = TRUE]
            ELSE kept

RECURSIVE FilterLoop(_, _, _, _, _, _)
\* for i in range(len(times)): ...
FilterLoop(acc, i, times, temps, rains, today) ==
    IF i > Len(times) THEN acc
    ELSE FilterLoop(FilterStep(acc, i, times, temps, rains, today),
                    i + 1, times, temps, rains, today)

\* the body of "for loc in LOCATIONS" for one location; st holds
\* [raised, will_rain, location_data]
LocationStep(st, loc, today) ==
    LET response == fetch_weather(loc.lat, loc.lon)
        hourly == Get(response.json, "hourly", EmptyDict)
        times == Get(hourly, "time", <<>>)
        temps == Get(hourly, "temperature_2m", <<>>)
        rains == Get(hourly, "precipitation_probability", <<>>)
        done == FilterLoop([raised |-> FALSE, will_rain |-> st.will_rain,
                            times |-> <<>>, temps |-> <<>>, rains |-> <<>>],
                           1, times, temps, rains, today)
    IN IF st.raised THEN st
       ELSE IF response.raises \/ done.raised THEN [st EXCEPT !.raised = TRUE]
       ELSE [raised |-> FALSE,
             will_rain |-> done.will_rain,
             location_data |-> Append(st.location_data,
                                      [name |-> loc.name, times |-> done.times,
                                       temps |-> done.temps, rains |-> done.rains])]

\* RenderValue printing None as it is
RenderValuePlain(v) == IF IsNone(v) THEN <<"None">> ELSE IntToChars(Round(v))

\* round(x) if x is not None else "N/A", as the f-string prints it
RenderValue(v) == IF IsNone(v) THEN <<"N/A">> ELSE IntToChars(Round(v))

\* f"{time_str} - {temp}(degree sign)C, {rain}%"
RenderLine(loc, i) ==
    Slice(loc.times[i], 11, 16) \o <<" - ">> \o RenderValue(loc.temps[i])
        \o <<"degC, ">> \o RenderValue(loc.rains[i]) \o <<"%">>

\* RenderBlock leaving out a location that has no lines
RenderBlockIfAny(loc) ==
    IF loc.times = <<>> THEN <<>>
    ELSE <<<<loc.name, ":">>>> \o [i \in 1..Len(loc.times) |-> RenderLine(loc, i)]
            \o <<<<>>>>

\* one location's part of the message: its header, its lines, an empty line
RenderBlock(loc) ==
    <<<<loc.name, ":">>>> \o [i \in 1..Len(loc.times) |-> RenderLine(loc, i)]
        \o <<<<>>>>

RECURSIVE RenderBlocks(_)
\* for loc in location_data: ...
RenderBlocks(data) ==
    IF data = <<>> THEN <<>>
    ELSE RenderBlock(Head(data)) \o RenderBlocks(Tail(data))

\* weather_emoji
WeatherEmoji(rain) == IF rain THEN RainEmoji ELSE SunEmoji

\* lines 69-81: the message, as the sequence of its lines
Render(title, rain, data) ==
    <<title \o <<" ", WeatherEmoji(rain)>>, <<>>>> \o RenderBlocks(data)

RECURSIVE LocationLoop(_, _, _)
LocationLoop(st, k, today) ==
    IF k > Len(LOCATIONS) THEN st
    ELSE LocationLoop(LocationStep(st, LOCATIONS[k], today), k + 1, today)

\* build_message() called at instant t: [raised, msg]
build_message(t) ==
    LET title == StrfLong(DatetimeNow(t, PH_TZ))
        today == StrfDate(DatetimeNow(t, PH_TZ))
        st == LocationLoop([raised |-> FALSE, will_rain |-> FALSE,
                            location_data |-> <<>>], 1, today)
    IN IF st.raised THEN [raised |-> TRUE, msg |-> <<>>]
       ELSE [raised |-> FALSE, msg |-> Render(title, st.will_rain, st.location_data)]

---------------------------------------------------------------------------
(* The answers of the weather API the model draws from *)

ErrorResponse == [raises |-> TRUE, json |-> EmptyDict]

Ok(json) == [raises |-> FALSE, json |-> json]


\* the timestamps the API answers with, in its (chronological) order: one of
\* the day before the call (the UTC date while it is 06:00 in Manila), then
\* the call's day around both ends of the window
Timestamps ==
    <<Timestamp(FirstDay - 1, 12),
      Timestamp(FirstDay, FirstHour - 1), Timestamp(FirstDay, FirstHour),
      Timestamp(FirstDay, LastHour), Timestamp(FirstDay, LastHour + 1)>>

\* the hourly "time" arrays of n entries
TimeLists(n) ==
    {[i \in 1..n |-> Timestamps[f[i]]] :
        f \in {g \in [1..n -> 1..Len(Timestamps)] :
                 \A i \in 1..n : \A j \in 1..n : i < j => g[i] < g[j]}}

Temperatures == {None, Num(245)}

Probabilities == {None, Num(200), Num(RainThreshold * 10)}

\* the lists of at most n values of S, a missing key standing for the empty list
ShortLists(S, n) == UNION {[1..m -> S] : m \in 0..n}

HourlyOf(times, temps, rains) ==
    [k \in {"time"} \cup (IF temps = <<>> THEN {} ELSE {"temperature_2m"})
               \cup (IF rains = <<>> THEN {} ELSE {"precipitation_probability"})
       |-> IF k = "time" THEN times
           ELSE IF k = "temperature_2m" THEN temps ELSE rains]

\* the answers with exactly n hourly entries
ResponsesOf(n) ==
    IF n = 0
    THEN {ErrorResponse, Ok(EmptyDict), Ok([hourly |-> EmptyDict]),
          Ok([hourly |-> [time |-> <<>>, temperature_2m |-> <<>>,
                          precipitation_probability |-> <<>>]])}
    ELSE {Ok([hourly |-> HourlyOf(times, temps, rains)]) :
            times \in TimeLists(n),
            temps \in ShortLists(Temperatures, n),
            rains \in ShortLists(Probabilities, n)}

ResponsesUpTo(n) == UNION {ResponsesOf(m) : m \in 0..n}

ApiOf(work, home) ==
    [c \in Coordinates |-> IF c = <<LOCATIONS[1].lat, LOCATIONS[1].lon>>
                           THEN work ELSE home]

\* what the API may answer while main runs on local day date
DailyResponses(date) ==
    {ErrorResponse, Ok(EmptyDict),
     Ok([hourly |-> HourlyOf(<<Timestamp(date, FirstHour)>>, <<Num(245)>>,
                             <<Num(RainThreshold * 10)>>)]),
     Ok([hourly |-> HourlyOf(<<Timestamp(date, LastHour)>>, <<Num(245)>>,
                             <<None>>)])}

DailyApis(date) == [Coordinates -> DailyResponses(date)]

---------------------------------------------------------------------------
(* main *)

Latencies == 0..MaxLatency

NoDatetime == [date |-> 0, secs |-> 0, off |-> UTC]

\* NextTarget rolling over only when now_ph is past 06:00, not at it
NextTargetStrict(np) ==
    LET target == Localize(NaiveAt(np.date, TargetHour), PH_TZ)
    IN IF Instant(np) > Instant(target) THEN PlusDays(target, 1) ELSE target

\* lines 94-102: the next 06:00 in Manila after now_ph
NextTarget(np) ==
    LET target == Localize(NaiveAt(np.date, TargetHour), PH_TZ)
    IN IF DtGe(np, target) THEN PlusDays(target, 1) ELSE target

\* ShouldSleep skipping the sleep for a delay of one second
ShouldSleepOverOne(delay) == delay > 1

\* line 113: if delay_seconds > 0
ShouldSleep(delay) == delay > 0

\* the local instants main is started at
StartTimes ==
    {Instant([date |-> FirstDay, secs |-> s, off |-> PH_TZ]) :
        s \in {0, TargetHour * SecondsPerHour - 1, TargetHour * SecondsPerHour,
               TargetHour * SecondsPerHour + 1, SecondsPerDay - 1}}

Init ==
    /\ clock \in StartTimes
    /\ pc = "compute"
    /\ api \in DailyApis(DatetimeNow(clock, PH_TZ).date)
    /\ now_ph = NoDatetime
    /\ target_ph = NoDatetime
    /\ delay_seconds = 0
    /\ now = <<>>
    /\ today_str = <<>>
    /\ will_rain = FALSE
    /\ location_data = <<>>
    /\ message = <<>>
    /\ fetched = <<>>
    /\ log = 0
    /\ attempts = <<>>
    /\ iter = 0
    /\ builds = 0

\* lines 93-110: read the clock twice, compute the target and the delay
Compute ==
    /\ pc = "compute"
    /\ DatetimeNow(clock, PH_TZ).date <= MaxDays
    /\ \E dt \in Latencies :
         LET np == DatetimeNow(clock, PH_TZ)
             tgt == NextTarget(np)
             now_utc == DatetimeNow(clock + dt, UTC)
             target_utc == AsTimezone(tgt, UTC)
         IN /\ now_ph' = np
            /\ target_ph' = tgt
            /\ delay_seconds' = TotalSeconds(target_utc, now_utc)
            /\ clock' = clock + dt
    /\ iter' = iter + 1
    /\ builds' = 0
    /\ pc' = "wait"
    /\ UNCHANGED <<api, now, today_str, will_rain, location_data, message,
                   fetched, log, attempts>>

\* lines 113-114: await asyncio.sleep(delay_seconds); the forecast moves on
Sleep ==
    /\ pc = "wait"
    /\ ShouldSleep(delay_seconds)
    /\ \E over \in Latencies : clock' = clock + delay_seconds + over
    /\ api' \in DailyApis(DatetimeNow(clock', PH_TZ).date)
    /\ pc' = "build"
    /\ UNCHANGED <<now_ph, target_ph, delay_seconds, now, today_str, will_rain,
                   location_data, message, fetched, log, attempts, iter, builds>>

\* line 113, the delay not positive: no sleep
SkipSleep ==
    /\ pc = "wait"
    /\ ~ShouldSleep(delay_seconds)
    /\ pc' = "build"
    /\ UNCHANGED <<clock, api, now_ph, target_ph, delay_seconds, now, today_str,
                   will_rain, location_data, message, fetched, log, attempts,
                   iter, builds>>

\* line 116 and lines 32-36: build_message is entered
BuildStart ==
    /\ pc = "build"
    /\ now' = StrfLong(DatetimeNow(clock, PH_TZ))
    /\ today_str' = StrfDate(DatetimeNow(clock, PH_TZ))
    /\ will_rain' = FALSE
    /\ location_data' = <<>>
    /\ fetched' = <<>>
    /\ builds' = builds + 1
    /\ pc' = "fetch"
    /\ UNCHANGED <<clock, api, now_ph, target_ph, delay_seconds, message, log,
                   attempts, iter>>

\* lines 39-67: one turn of "for loc in LOCATIONS"; an exception of
\* fetch_weather or of the filter leaves build_message and main
Fetch ==
    /\ pc = "fetch"
    /\ Len(location_data) < Len(LOCATIONS)
    /\ \E dt \in Latencies : clock' = clock + dt
    /\ LET loc == LOCATIONS[Len(location_data) + 1]
           st == LocationStep([raised |-> FALSE, will_rain |-> will_rain,
                               location_data |-> location_data], loc, today_str)
       IN /\ fetched' = Append(fetched, fetch_weather(loc.lat, loc.lon))
          /\ IF st.raised
             THEN /\ pc' = "crashed"
                  /\ UNCHANGED <<will_rain, location_data>>
             ELSE /\ will_rain' = st.will_rain
                  /\ location_data' = st.location_data
                  /\ pc' = IF Len(st.location_data) = Len(LOCATIONS)
                           THEN "compose" ELSE "fetch"
    /\ UNCHANGED <<api, now_ph, target_ph, delay_seconds, now, today_str,
                   message, log, attempts, iter, builds>>

\* lines 69-81 and 116: the message is rendered and returned to main
Compose ==
    /\ pc = "compose"
    /\ message' = Render(now, will_rain, location_data)
    /\ pc' = "send"
    /\ UNCHANGED <<clock, api, now_ph, target_ph, delay_seconds, now, today_str,
                   will_rain, location_data, fetched, log, attempts, iter,
                   builds>>

\* what is recorded of a delivery attempt: its iteration, that iteration's
\* target and whether the target had come when the attempt was made
Attempt == [iter |-> iter, target |-> target_ph,
            waited |-> clock >= Instant(target_ph)]

\* lines 118-119: the message is delivered
SendOk ==
    /\ pc = "send"
    /\ \E dt \in Latencies : clock' = clock + dt
    /\ attempts' = Append(attempts, Attempt)
    /\ pc' = "compute"
    /\ UNCHANGED <<api, now_ph, target_ph, delay_seconds, now, today_str,
                   will_rain, location_data, message, fetched, log, iter,
                   builds>>

\* OnSendError with the exception not caught
OnSendErrorUncaught == "crashed"

\* lines 120-124: where an Exception of bot.send_message is handled
OnSendError == "backoff"

\* lines 118, 120-122: bot.send_message raises an Exception, which is printed
SendFail ==
    /\ pc = "send"
    /\ \E dt \in Latencies : clock' = clock + dt
    /\ attempts' = Append(attempts, Attempt)
    /\ log' = iter
    /\ pc' = OnSendError
    /\ UNCHANGED <<api, now_ph, target_ph, delay_seconds, now, today_str,
                   will_rain, location_data, message, fetched, iter, builds>>

\* AfterBackoff sending the same message again
AfterBackoffResend == "send"

\* where main goes after "await asyncio.sleep(10)"
AfterBackoff == "compute"

\* line 124: await asyncio.sleep(10)
Backoff ==
    /\ pc = "backoff"
    /\ \E over \in Latencies : clock' = clock + RetryDelay + over
    /\ pc' = AfterBackoff
    /\ UNCHANGED <<api, now_ph, target_ph, delay_seconds, now, today_str,
                   will_rain, location_data, message, fetched, log, attempts,
                   iter, builds>>

Running == {"compute", "wait", "build", "fetch", "compose", "send", "backoff"}

\* lines 127-128: KeyboardInterrupt ends the loop
Interrupt ==
    /\ pc \in Running
    /\ pc' = "stopped"
    /\ UNCHANGED <<clock, api, now_ph, target_ph, delay_seconds, now, today_str,
                   will_rain, location_data, message, fetched, log, attempts,
                   iter, builds>>

Next ==
    \/ Compute
    \/ Sleep
    \/ SkipSleep
    \/ BuildStart
    \/ Fetch
    \/ Compose
    \/ SendOk
    \/ SendFail
    \/ Backoff
    \/ Interrupt

Spec == Init /\ [][Next]_vars

---------------------------------------------------------------------------
(* build_message called directly, on every answer of the API within the    *)
(* bounds *)

CallTimes == {Instant([date |-> FirstDay, secs |-> TargetHour * SecondsPerHour,
                       off |-> PH_TZ])}

InitCall ==
    /\ clock \in CallTimes
    /\ pc = "call"
    /\ \E n \in 0..MaxEntries :
         \E work \in ResponsesOf(n), home \in ResponsesUpTo(MaxEntries - n) :
            api = ApiOf(work, home)
    /\ now_ph = NoDatetime
    /\ target_ph = NoDatetime
    /\ delay_seconds = 0
    /\ now = <<>>
    /\ today_str = <<>>
    /\ will_rain = FALSE
    /\ location_data = <<>>
    /\ message = <<>>
    /\ fetched = <<>>
    /\ log = 0
    /\ attempts = <<>>
    /\ iter = 0
    /\ builds = 0

\* message = build_message(), or the exception it raises
Call ==
    /\ pc = "call"
    /\ LET r == build_message(clock)
       IN /\ message' = r.msg
          /\ pc' = IF r.raised THEN "raised" ELSE "returned"
    /\ UNCHANGED <<clock, api, now_ph, target_ph, delay_seconds, now, today_str,
                   will_rain, location_data, fetched, log, attempts, iter,
                   builds>>

NextCall == Call

SpecCall == InitCall /\ [][NextCall]_vars

---------------------------------------------------------------------------
(* Properties of main *)

\* 06:00:00 as a second of the day
SixOClock == TargetHour * SecondsPerHour

\* dt is 06:00:00 of some day in Manila
AtSixInManila(dt) == dt.secs = SixOClock /\ dt.off = PH_TZ

\* C1: the target computed in an iteration is strictly later than the time
\* read in that iteration and is 06:00:00 Manila time: today's when the time
\* read is before today's 06:00, the next day's when it is at or after it.
C1_TargetIsNextSix ==
    pc = "wait" =>
        /\ Instant(target_ph) > Instant(now_ph)
        /\ AtSixInManila(target_ph)
        /\ now_ph.off = PH_TZ
        /\ now_ph.secs < SixOClock => target_ph.date = now_ph.date
        /\ now_ph.secs >= SixOClock => target_ph.date = now_ph.date + 1

\* C1, reached: the time read is exactly 06:00:00 and the target is the next
\* day's 06:00.
C1_Witness ==
    /\ pc = "wait"
    /\ now_ph.secs = SixOClock
    /\ target_ph.date = now_ph.date + 1

\* C2: a failed send is caught and printed, then the loop waits at least the
\* ten seconds and starts its next iteration, whose target is 06:00 Manila
\* time, strictly after the time read and on a later day than the target of
\* the failed iteration.
C2_SendFailureContinues ==
    [][/\ (pc = "send" /\ pc' \notin {"compute", "stopped"})
            => (pc' = "backoff" /\ log' = iter)
       /\ (pc = "backoff" /\ pc' # "stopped")
            => (pc' = "compute" /\ clock' >= clock + RetryDelay)
       /\ (pc = "compute" /\ log = iter /\ iter > 0 /\ pc' # "stopped")
            => /\ pc' = "wait"
               /\ iter' = iter + 1
               /\ AtSixInManila(target_ph')
               /\ Instant(target_ph') > Instant(now_ph')
               /\ Instant(now_ph') = clock
               /\ target_ph'.date > target_ph.date]_vars

\* C2, reached: the iteration after a failed send has computed its target.
C2_Witness == pc = "wait" /\ iter > 1 /\ log = iter - 1

\* C3: when fetch_weather raises, the loop of main goes on (the cycle is
\* skipped) and the process does not end.
C3_FetchErrorSkipsCycle ==
    (fetched # <<>> /\ fetched[Len(fetched)].raises) => pc \in Running

\* C7: build_message is called once in an iteration before the send, no
\* iteration attempts delivery twice, and of any two delivery attempts the
\* later one was made after its own iteration had waited for a 06:00 target
\* on a later day.
C7_OneMessagePerCycle ==
    /\ builds <= 1
    /\ pc \in {"fetch", "compose", "send", "backoff"} => builds = 1
    /\ \A j \in 1..Len(attempts) :
         /\ attempts[j].waited
         /\ AtSixInManila(attempts[j].target)
         /\ \A i \in 1..(j - 1) :
              /\ attempts[i].iter < attempts[j].iter
              /\ attempts[i].target.date < attempts[j].target.date

\* C7, reached: a failed attempt and a later attempt.
C7_Witness ==
    /\ Len(attempts) >= 2
    /\ log = attempts[1].iter

\* C10: nothing is fetched or sent before the target of the iteration has
\* come (so the sleep is skipped only for a delay that is not positive), and
\* every location has been fetched when the send is attempted.
C10_WaitFetchDeliver ==
    /\ pc \in {"build", "fetch", "compose", "send"}
         => clock >= Instant(target_ph)
    /\ pc \in {"build", "fetch", "compose", "send"} /\ delay_seconds > 0
         => clock >= Instant(now_ph) + delay_seconds
    /\ pc \in {"compose", "send"} => Len(fetched) = Len(LOCATIONS)
    /\ pc = "send" => Len(message) >= 2 + 2 * Len(LOCATIONS)

\* C10, reached: a send after a sleep that was skipped, both locations
\* fetched.
C10_Witness ==
    /\ pc = "send"
    /\ delay_seconds <= 0
    /\ Len(fetched) = Len(LOCATIONS)

---------------------------------------------------------------------------
(* Properties of build_message: what the API answered (api) against the    *)
(* message returned                                                        *)

\* the hourly arrays the API answered for the k-th location
AnswerOf(k) == api[<<LOCATIONS[k].lat, LOCATIONS[k].lon>>]
HourlyOfAnswer(k) == Get(AnswerOf(k).json, "hourly", EmptyDict)
TimesOf(k) == Get(HourlyOfAnswer(k), "time", <<>>)
TempsOf(k) == Get(HourlyOfAnswer(k), "temperature_2m", <<>>)
RainsOf(k) == Get(HourlyOfAnswer(k), "precipitation_probability", <<>>)

LocationIndexes == 1..Len(LOCATIONS)

\* today's date in Manila, as a day number
TodayInManila == (clock + PH_TZ * SecondsPerHour) \div SecondsPerDay

\* a retained hour: a timestamp of today, Manila time, at an hour of 8..20
IsRetained(ts) == \E h \in FirstHour..LastHour : ts = Timestamp(TodayInManila, h)

\* the value of index i is null or past the end of the array
MissingAt(xs, i) == i > Len(xs) \/ xs[i] = None

AnyFetchError == \E k \in LocationIndexes : AnswerOf(k).raises

\* some retained hour has no rain probability
AnyRainMissing ==
    \E k \in LocationIndexes : \E i \in 1..Len(TimesOf(k)) :
        IsRetained(TimesOf(k)[i]) /\ MissingAt(RainsOf(k), i)

\* some retained hour has a rain probability of 30 or more
AnyRetainedRain ==
    \E k \in LocationIndexes : \E i \in 1..Len(TimesOf(k)) :
        /\ IsRetained(TimesOf(k)[i])
        /\ ~MissingAt(RainsOf(k), i)
        /\ RainsOf(k)[i][1] >= 300

\* "HH:MM" of a timestamp
HourMinute(ts) == SubSeq(ts, 12, 16)

\* the lines of the message between the header "<name>:" and the next empty
\* line
BlockLines(name) ==
    LET p == CHOOSE q \in 1..Len(message) : message[q] = <<name, ":">>
        e == CHOOSE q \in (p + 1)..Len(message) :
                /\ message[q] = <<>>
                /\ \A r \in (p + 1)..(q - 1) : message[r] # <<>>
    IN SubSeq(message, p + 1, e - 1)

\* the emoji at the end of the message's first line
EmojiOfMessage == message[1][Len(message[1])]

\* the retained timestamps of the k-th location, in the API's order
RetainedTimes(k) == SelectSeq(TimesOf(k), IsRetained)

\* line is "HH:MM - T(degree sign)C, R%" for some T and R
IsHourLine(line, hhmm) ==
    /\ Len(line) >= 9
    /\ SubSeq(line, 1, 5) = hhmm
    /\ line[6] = " - "
    /\ \E q \in 7..(Len(line) - 2) : line[q + 1] = "degC, "
    /\ line[Len(line)] = "%"

\* C4: with no fetch error, a retained hour whose rain probability is
\* missing does not make build_message fail, and its line ends in "N/A%".
C4_MissingRainRendersNA ==
    (pc # "call" /\ ~AnyFetchError /\ AnyRainMissing) =>
        /\ pc = "returned"
        /\ \A k \in LocationIndexes : \A i \in 1..Len(TimesOf(k)) :
             (IsRetained(TimesOf(k)[i]) /\ MissingAt(RainsOf(k), i)) =>
                \E j \in 1..Len(BlockLines(LOCATIONS[k].name)) :
                    LET line == BlockLines(LOCATIONS[k].name)[j]
                    IN /\ IsHourLine(line, HourMinute(TimesOf(k)[i]))
                       /\ line[Len(line) - 1] = "N/A"

\* C5: the returned message carries the rain emoji if and only if some
\* retained hour of some location has a rain probability of 30 or more, and
\* the sun emoji otherwise.
C5_RainEmojiIffRetainedRain ==
    pc = "returned" =>
        /\ EmojiOfMessage = "sun behind rain cloud" <=> AnyRetainedRain
        /\ EmojiOfMessage = "sun" <=> ~AnyRetainedRain

\* C5, reached: the rain emoji is set by an hour of Home alone, while Work
\* has an hour of 30 or more that is filtered out.
C5_Witness ==
    /\ pc = "returned"
    /\ EmojiOfMessage = "sun behind rain cloud"
    /\ \E i \in 1..Len(TimesOf(1)) :
         /\ ~IsRetained(TimesOf(1)[i])
         /\ ~MissingAt(RainsOf(1), i)
         /\ RainsOf(1)[i][1] >= 300
    /\ \A i \in 1..Len(TimesOf(1)) : ~IsRetained(TimesOf(1)[i])
    /\ \E i \in 1..Len(TimesOf(2)) : IsRetained(TimesOf(2)[i])

\* C6: in the returned message an hourly entry of a location has a line in
\* that location's block if and only if its timestamp is of today's date in
\* Manila with an hour of 8..20 (both ends retained), and the block has no
\* other lines.
C6_OnlyRetainedHoursListed ==
    pc = "returned" =>
        \A k \in LocationIndexes :
            LET lines == BlockLines(LOCATIONS[k].name)
            IN /\ \A i \in 1..Len(TimesOf(k)) :
                    (\E j \in 1..Len(lines) :
                        SubSeq(lines[j], 1, 5) = HourMinute(TimesOf(k)[i]))
                    <=> IsRetained(TimesOf(k)[i])
               /\ \A j \in 1..Len(lines) :
                    \E i \in 1..Len(TimesOf(k)) :
                        /\ IsRetained(TimesOf(k)[i])
                        /\ SubSeq(lines[j], 1, 5) = HourMinute(TimesOf(k)[i])
               /\ Len(lines) = Len(RetainedTimes(k))

\* C6, reached: Work answers hour 20 and hour 21 of today; only hour 20
\* has a line.
C6_Witness ==
    /\ pc = "returned"
    /\ TimesOf(1) = <<Timestamp(TodayInManila, 20), Timestamp(TodayInManila, 21)>>
    /\ Len(BlockLines("Work")) = 1
    /\ SubSeq(BlockLines("Work")[1], 1, 5) = <<"2", "0", ":", "0", "0">>

\* C8: a retained hour whose temperature is missing and whose rain
\* probability is present does not make build_message fail (a failure comes
\* from a fetch error or from a missing rain probability), and in the
\* returned message its line is "HH:MM - N/A(degree sign)C, R%" with its
\* own time and its own rain percentage.
C8_MissingTemperatureRendersNA ==
    /\ pc = "raised" => (AnyFetchError \/ AnyRainMissing)
    /\ pc = "returned" =>
         \A k \in LocationIndexes : \A i \in 1..Len(TimesOf(k)) :
            (IsRetained(TimesOf(k)[i]) /\ MissingAt(TempsOf(k), i)) =>
                \E j \in 1..Len(BlockLines(LOCATIONS[k].name)) :
                    BlockLines(LOCATIONS[k].name)[j] =
                        HourMinute(TimesOf(k)[i]) \o <<" - ", "N/A", "degC, ">>
                            \o NatToChars(RainsOf(k)[i][1] \div 10) \o <<"%">>

\* C8, reached: a message with a retained hour whose temperature is null
\* and one whose temperature is past the end of the array.
C8_Witness ==
    /\ pc = "returned"
    /\ \E k \in LocationIndexes : \E i \in 1..Len(TimesOf(k)) :
         /\ IsRetained(TimesOf(k)[i])
         /\ i <= Len(TempsOf(k))
         /\ TempsOf(k)[i] = None
    /\ \E k \in LocationIndexes : \E i \in 1..Len(TimesOf(k)) :
         /\ IsRetained(TimesOf(k)[i])
         /\ i > Len(TempsOf(k))

\* C9: the returned message is its title line, an empty line, then the
\* block of Work and the block of Home in that order; a block is the header
\* "<name>:", one "HH:MM - T(degree sign)C, R%" line per retained hour of the
\* location in the API's order, and an empty line; a location without
\* hourly data has its header and no lines.
C9_OneBlockPerLocation ==
    pc = "returned" =>
        LET n1 == Len(RetainedTimes(1))
            n2 == Len(RetainedTimes(2))
            p1 == 3
            p2 == 3 + n1 + 2
        IN /\ Len(message) = 2 + (n1 + 2) + (n2 + 2)
           /\ message[2] = <<>>
           /\ message[p1] = <<"Work", ":">>
           /\ \A i \in 1..n1 :
                IsHourLine(message[p1 + i], HourMinute(RetainedTimes(1)[i]))
           /\ message[p1 + n1 + 1] = <<>>
           /\ message[p2] = <<"Home", ":">>
           /\ \A i \in 1..n2 :
                IsHourLine(message[p2 + i], HourMinute(RetainedTimes(2)[i]))
           /\ message[p2 + n2 + 1] = <<>>

\* C9, reached: Work's answer has no "hourly" key and Home has two retained
\* hours.
C9_Witness ==
    /\ pc = "returned"
    /\ "hourly" \notin DOMAIN AnswerOf(1).json
    /\ Len(RetainedTimes(2)) = 2
    /\ Len(message) = 8

=============================================================================
